---- MODULE Spec2Model ----
(***************************************************************************)
(* hexrd fit-grains: the orchestrator fit_grains(cfg) of                   *)
(* src/hexrd/fitgrains.py, its job queue (multiprocessing.JoinableQueue),   *)
(* its shared result list (multiprocessing.Manager().list()) and its pool  *)
(* of FitGrainsWorker processes.                                           *)
(*                                                                         *)
(* One action per statement group of the orchestrator, one action per      *)
(* step of FitGrainsWorker.run/loop.  Numerical values are abstracted:     *)
(* grain parameters are (origin job, number of fitGrain calls applied),    *)
(* a reflection table is (valid count, candidate count).                   *)
(***************************************************************************)
EXTENDS Integers, Sequences, FiniteSets, TLC

\* ------------------------------------------------------------- bounds
\* largest number of rows of quats.out (jobs of a batch)
MaxJobs == 2
\* largest cfg.multiprocessing (worker processes)
MaxWorkers == 2
\* candidate reflections of one grain (rows of a spots file, len(idx))
NCand == 14

\* ---------------------------------------------------- program constants
\* "if sum(idx) <= 12" of FitGrainsWorker.fit_grains
MinRefl == 12
\* "for iteration in range(2)" of FitGrainsWorker.loop
NIter == 2

VARIABLES
    files,      \* which files exist: detector file, legacy file, quats.out
    nrows,      \* rows of quats.out (one quaternion per grain)
    ncpus,      \* cfg.multiprocessing
    tolerance,  \* cfg.fit_grains.tolerance: the tolerance lists
    det0,       \* history: the detector file existed when the run began
    migrated,   \* history: migrate_detector_config was called in this run
    opc,        \* the orchestrator's position in fit_grains
    n_quats,    \* fit_grains: n_quats
    i,          \* fit_grains: loop variable of the put loop and the spawn loop
    buffer,     \* JoinableQueue: objects put, not yet written to the pipe
    pipe,       \* JoinableQueue: objects in the pipe, ready for get
    unfinished, \* JoinableQueue: _unfinished_tasks
    rlock,      \* JoinableQueue: _rlock holder (0: free)
    results,    \* manager.list()
    pkwargs,    \* fit_grains: reference of the pkwargs dict (-1: not built)
    heap,       \* dict objects by reference
    wpc,        \* per worker: position in run/loop
    p,          \* per worker: reference of self._p
    local,      \* per worker: locals of loop (id, grain_params, ...)
    spots,      \* per grain id: the file spots_%05d.out
    report,     \* rows written to grains.out
    dequeued,   \* history: grain ids returned by get
    appends,    \* history: number of calls of results.append
    acked       \* history: number of calls of task_done

vars == <<files, nrows, ncpus, tolerance, det0, migrated, opc, n_quats, i, buffer,
          pipe, unfinished, rlock, results, pkwargs, heap, wpc, p, local,
          spots, report, dequeued, appends, acked>>

Workers == 1..MaxWorkers
GrainIds == 0..(MaxJobs - 1)
Refs == 0..MaxWorkers

\* ------------------------------------------------------------ values
\* the tolerance lists cfg.fit_grains.tolerance.{tth,eta,omega}: one entry
\* per iteration, coarse then fine
ToleranceSchedule == <<"coarse", "fine">>

\* the lists a configuration file can hold: the lists are read from the file
\* as they are (lines 152-154), of whatever length
Schedules == {<<"coarse">>, ToleranceSchedule}

\* grain_params of job i as built by the put loop
InitParams(k) == [orig |-> k, fits |-> 0]

\* hexrd.xrd.fitting.fitGrain: returns refined parameters
fitGrain(gp) == [gp EXCEPT !.fits = @ + 1]

\* completeness values: sum(idx)/float(len(idx)), and the literal 0
Zero == [num |-> 0, den |-> 1]
Ratio(a, b) == [num |-> a, den |-> b]
IsZero(c) == c.num = 0

\* outcomes of one pullSpots call: the number of rows of the spots file
\* that pass "valid_refl_ids and idx_ome"
ValidCounts == {MinRefl, MinRefl + 1}

Free == [kind |-> "free"]
Unset == [kind |-> "unset"]
NoFile == [kind |-> "none"]
NoLocal == [id |-> -1, grain_params |-> Unset, iteration |-> 0,
            compl |-> Zero, entered |-> Unset, eMat |-> Unset, resd |-> Unset]

\* numbers a + b*sqrt(2), held as <<a, b>>
Num(a) == <<a, 0>>
Sqrt2Times(x) == <<2 * x[2], x[1]>>
Idx3 == (0..2) \X (0..2)
Min2(a, b) == IF a < b THEN a ELSE b
Max2(a, b) == IF a < b THEN b ELSE a

\* entry (r, c) of logm(inv(vecMVToSymm(grain_params[6:]))): the stretch put
\* on the queue is the identity (lines 138-140), whose logarithm is the zero
\* matrix; a fitted stretch is symmetric with entries of its own
LogEntry(gp, r, c) ==
    IF gp.fits = 0 THEN Num(0)
    ELSE Num(10 * gp.fits + 3 * Min2(r, c) + Max2(r, c) + 1)

\* line 295: eMat = logm(inv(vecMVToSymm(grain_params[6:])))
logm_inv(gp) ==
    [kind |-> "eMat",
     m |-> <<<<LogEntry(gp, 0, 0), LogEntry(gp, 0, 1), LogEntry(gp, 0, 2)>>,
             <<LogEntry(gp, 1, 0), LogEntry(gp, 1, 1), LogEntry(gp, 1, 2)>>,
             <<LogEntry(gp, 2, 0), LogEntry(gp, 2, 1), LogEntry(gp, 2, 2)>>>>]

\* eMat[r, c], rows and columns counted from 0
At(m, r, c) == m[r + 1][c + 1]

\* ------------------------------------------------------------ sorting
\* sorted(results): tuples compare by their first item, the grain id
RECURSIVE InsertById(_, _)
InsertById(r, s) ==
    IF s = <<>> THEN <<r>>
    ELSE IF r.id < Head(s).id THEN <<r>> \o s
    ELSE <<Head(s)>> \o InsertById(r, Tail(s))

RECURSIVE sorted(_)
sorted(s) == IF s = <<>> THEN <<>> ELSE InsertById(Head(s), sorted(Tail(s)))

\* ------------------------------------------------------------ copying
\* a plausible slip: the dict is handed over without a copy
deepcopy_alias(ref, fresh) == ref

\* copy.deepcopy(pkwargs): a new dict object, equal to the original
deepcopy(ref, fresh) == fresh

\* -------------------------------------------------------------- Init
Init ==
    /\ files \in [det : BOOLEAN, old : BOOLEAN, quats : BOOLEAN]
    /\ nrows \in 1..MaxJobs
    /\ ncpus \in 1..MaxWorkers
    /\ tolerance \in Schedules
    /\ det0 = files.det
    /\ migrated = FALSE
    /\ opc = "start"
    /\ n_quats = 0
    /\ i = 0
    /\ buffer = <<>>
    /\ pipe = <<>>
    /\ unfinished = 0
    /\ rlock = 0
    /\ results = <<>>
    /\ pkwargs = -1
    /\ heap = [r \in Refs |-> Free]
    /\ wpc = [w \in Workers |-> "unborn"]
    /\ p = [w \in Workers |-> -1]
    /\ local = [w \in Workers |-> NoLocal]
    /\ spots = [g \in GrainIds |-> NoFile]
    /\ report = <<>>
    /\ dequeued = {}
    /\ appends = 0
    /\ acked = 0

\* --------------------------------------------------------- orchestrator
queueVars == <<buffer, pipe, unfinished, rlock>>
workerVars == <<wpc, p, local, spots, dequeued, appends, acked>>
cfgVars == <<nrows, ncpus, tolerance, det0>>

\* hexrd.coreutil.migrate_detector_config(..., filename=cfg.detector.parameters):
\* writes the structured detector file from the legacy numbers
migrate_detector_config(f) == [f EXCEPT !.det = TRUE]

\* a plausible slip: the migration is run whether or not the file is there
NeedsMigration_always(f) == TRUE

\* line 76: "if not os.path.exists(det_p)"
NeedsMigration(f) == ~f.det

\* lines 72-111: initialize_experiment, the detector file (migrated from the
\* legacy file when absent; np.loadtxt of an absent legacy file raises), then
\* open(det_p) and the exclusions
Bootstrap ==
    /\ opc = "start"
    /\ IF NeedsMigration(files)
       THEN IF files.old
            THEN /\ files' = migrate_detector_config(files)
                 /\ migrated' = TRUE
                 /\ opc' = "load_quats"
            ELSE /\ opc' = "failed"
                 /\ UNCHANGED <<files, migrated>>
       ELSE /\ opc' = "load_quats"
            /\ UNCHANGED <<files, migrated>>
    /\ UNCHANGED <<cfgVars, n_quats, i, queueVars, results, pkwargs, heap,
                   workerVars, report>>

\* lines 113-132: np.loadtxt(quats.out) raises when the file is absent;
\* read_frames; then the queue and the manager list are created
LoadQuats ==
    /\ opc = "load_quats"
    /\ IF files.quats
       THEN /\ n_quats' = nrows
            /\ opc' = "load_queue"
       ELSE /\ opc' = "failed"
            /\ UNCHANGED n_quats
    /\ i' = 0
    /\ UNCHANGED <<files, cfgVars, migrated, queueVars, results, pkwargs,
                   heap, workerVars, report>>

\* a plausible slip: every job is put with the id of the first row
Job_same_id(k) == [id |-> 0, grain_params |-> InitParams(0)]

\* lines 136-141: the tuple (i, grain_params) put for row i of the quaternions
Job(k) == [id |-> k, grain_params |-> InitParams(k)]

\* lines 136-141: one turn of the put loop.  JoinableQueue.put appends the
\* object to the queue's buffer and releases _unfinished_tasks; the queue's
\* feeder thread writes it to the pipe later
Put ==
    /\ opc = "load_queue"
    /\ i < n_quats
    /\ buffer' = Append(buffer, Job(i))
    /\ unfinished' = unfinished + 1
    /\ i' = i + 1
    /\ UNCHANGED <<files, cfgVars, migrated, opc, n_quats, pipe, rlock,
                   results, pkwargs, heap, workerVars, report>>

\* lines 144-164: the put loop is over; pkwargs is built
MakePkwargs ==
    /\ opc = "load_queue"
    /\ i = n_quats
    /\ pkwargs' = 0
    /\ heap' = [heap EXCEPT ![0] = [kind |-> "dict",
                                    detector_params |-> [from |-> IF migrated THEN "legacy"
                                                                ELSE "structured"],
                                    tol |-> tolerance,
                                    bMat |-> Unset,
                                    refl |-> Unset]]
    /\ opc' = "spawn"
    /\ i' = 0
    /\ UNCHANGED <<files, cfgVars, migrated, n_quats, queueVars, results,
                   workerVars, report>>

\* lines 166-170 and 214-224: one turn of the spawn loop.  The worker gets a
\* deep copy of pkwargs; its constructor sets 'bMat' and 'wlen' in it
Spawn ==
    /\ opc = "spawn"
    /\ i < ncpus
    /\ LET w == i + 1
           ref == deepcopy(pkwargs, w)
       IN /\ heap' = [heap EXCEPT ![ref] =
                         [heap[pkwargs] EXCEPT !.bMat = [kind |-> "B", by |-> w]]]
          /\ p' = [p EXCEPT ![w] = ref]
          /\ wpc' = [wpc EXCEPT ![w] = "fetch"]
    /\ i' = i + 1
    /\ opc' = IF i + 1 < ncpus THEN "spawn" ELSE "poll"
    /\ UNCHANGED <<files, cfgVars, migrated, n_quats, queueVars, results,
                   pkwargs, local, spots, dequeued, appends, acked,
                   report>>

\* a plausible slip: the poll loop leaves one result early
PollBreak_early(n) == n >= n_quats - 1

\* lines 171-175: one turn of the polling loop, n_res = len(results) compared
\* with n_quats
PollBreak(n) == n = n_quats

Poll ==
    /\ opc = "poll"
    /\ opc' = IF PollBreak(Len(results)) THEN "join" ELSE "poll"
    /\ UNCHANGED <<files, cfgVars, migrated, n_quats, i, queueVars, results,
                   pkwargs, heap, workerVars, report>>

\* a plausible slip: the join is left out
JoinReturns_nojoin == TRUE

\* line 176: job_queue.join() returns when _unfinished_tasks is zero
JoinReturns == unfinished = 0

Join ==
    /\ opc = "join"
    /\ JoinReturns
    /\ opc' = "report"
    /\ UNCHANGED <<files, cfgVars, migrated, n_quats, i, queueVars,
                   results, pkwargs, heap, workerVars, report>>

\* a plausible slip: the off-diagonal strain columns are written times sqrt(2)
Row_scaled(r) ==
    [id |-> r.id, compl |-> r.compl, resd |-> r.resd, g_refined |-> r.grain_params,
     strain |-> <<At(r.eMat.m, 0, 0), At(r.eMat.m, 1, 1), At(r.eMat.m, 2, 2),
                  Sqrt2Times(At(r.eMat.m, 1, 2)), Sqrt2Times(At(r.eMat.m, 0, 2)),
                  Sqrt2Times(At(r.eMat.m, 0, 1))>>]

\* lines 197-203: res_items of one result: id, compl, resd, the twelve
\* entries of g_refined, then eMat[0,0], eMat[1,1], eMat[2,2], eMat[1,2],
\* eMat[0,2], eMat[0,1] (the values handed to the format string)
Row(r) ==
    [id |-> r.id, compl |-> r.compl, resd |-> r.resd, g_refined |-> r.grain_params,
     strain |-> <<At(r.eMat.m, 0, 0), At(r.eMat.m, 1, 1), At(r.eMat.m, 2, 2),
                  At(r.eMat.m, 1, 2), At(r.eMat.m, 0, 2), At(r.eMat.m, 0, 1)>>]

\* a plausible slip: the rows are written in the order of completion
ReportRows_unsorted == [k \in 1..Len(results) |-> Row(results[k])]

\* lines 179-207: the rows of grains.out, in the order of sorted(results)
ReportRows == [k \in 1..Len(results) |-> Row(sorted(results)[k])]

Report ==
    /\ opc = "report"
    /\ report' = ReportRows
    /\ opc' = "done"
    /\ UNCHANGED <<files, cfgVars, migrated, n_quats, i, queueVars,
                   results, pkwargs, heap, workerVars>>

\* ------------------------------------------------------------- the queue
\* the feeder thread of the queue, started by the first put: moves the oldest
\* buffered object to the pipe.  Until it has run, get(False) finds the pipe
\* empty although put has returned (the delay the multiprocessing
\* documentation warns of for get_nowait)
Feed ==
    /\ buffer # <<>>
    /\ pipe' = Append(pipe, Head(buffer))
    /\ buffer' = Tail(buffer)
    /\ UNCHANGED <<files, cfgVars, migrated, opc, n_quats, i, unfinished,
                   rlock, results, pkwargs, heap, workerVars, report>>

\* ------------------------------------------------------------ workers
orchVars == <<files, cfgVars, migrated, opc, n_quats, i, pkwargs, report>>

\* line 287, first half of Queue.get(False): the non-blocking acquire of the
\* queue's reader lock; when another reader holds it, get raises Empty and
\* run (lines 313-318) leaves its loop
GetAcquire(w) ==
    /\ wpc[w] = "fetch"
    /\ IF rlock = 0
       THEN /\ rlock' = w
            /\ wpc' = [wpc EXCEPT ![w] = "recv"]
       ELSE /\ wpc' = [wpc EXCEPT ![w] = "terminated"]
            /\ UNCHANGED rlock
    /\ UNCHANGED <<orchVars, buffer, pipe, unfinished, results, heap, p, local,
                   spots, dequeued, appends, acked>>

\* a plausible slip: the object is read and left in the pipe
AfterRecv_peek(q) == q

\* line 287, Queue.get: recv takes the oldest object out of the pipe
AfterRecv(q) == Tail(q)

\* line 287, second half of Queue.get(False): with the reader lock held, an
\* empty pipe raises Empty (run leaves its loop), otherwise the oldest object
\* of the pipe is received; the lock is released either way
GetRecv(w) ==
    /\ wpc[w] = "recv"
    /\ rlock' = 0
    /\ IF pipe = <<>>
       THEN /\ wpc' = [wpc EXCEPT ![w] = "terminated"]
            /\ UNCHANGED <<pipe, local, dequeued>>
       ELSE /\ pipe' = AfterRecv(pipe)
            /\ local' = [local EXCEPT ![w] =
                            [NoLocal EXCEPT !.id = Head(pipe).id,
                                            !.grain_params = Head(pipe).grain_params]]
            /\ dequeued' = dequeued \cup {Head(pipe).id}
            /\ wpc' = [wpc EXCEPT ![w] = "assoc"]
    /\ UNCHANGED <<orchVars, buffer, unfinished, results, heap, p, spots,
                   appends, acked>>

\* exceptions the numerical calls of one job can raise (np.loadtxt and
\* indexing of the spots table, fitGrain, logm and inv, objFuncFitGrain)
JobExceptions == {"IOError", "IndexError", "LinAlgError"}

\* a plausible slip: "except Exception", which ends run quietly on any error
Caught_all(exc) == TRUE

\* line 317: "except Empty"
Caught(exc) == exc = "Empty"

\* lines 236-238: self._p['eta_tol'][iteration] and its two neighbours: is
\* `iteration` an index of the list
InRange(tol, iteration) == iteration + 1 \in 1..Len(tol)

\* lines 227-244 (called at line 290): pullSpots writes the file
\* spots_stem % grain_id, with the tolerances of this iteration; the
\* tolerances are indexed before pullSpots is called, and an index past the
\* end of a list raises IndexError, which nothing catches (lines 313-318)
pull_spots(w) ==
    /\ wpc[w] = "assoc"
    /\ IF InRange(heap[p[w]].tol, local[w].iteration)
       THEN /\ \E v \in ValidCounts :
                  spots' = [spots EXCEPT ![local[w].id] =
                               [kind |-> "spots", valid |-> v, total |-> NCand,
                                iter |-> local[w].iteration,
                                tol |-> heap[p[w]].tol[local[w].iteration + 1]]]
            /\ local' = [local EXCEPT ![w].entered = local[w].grain_params]
            /\ wpc' = [wpc EXCEPT ![w] = "fit"]
       ELSE /\ wpc' = [wpc EXCEPT ![w] = IF Caught("IndexError") THEN "terminated"
                                        ELSE "dead"]
            /\ local' = [local EXCEPT ![w] = [NoLocal EXCEPT !.id = local[w].id]]
            /\ UNCHANGED spots
    /\ UNCHANGED <<orchVars, queueVars, results, heap, p, dequeued, appends, acked>>

\* a plausible slip: sum(idx)/len(idx) without float(), an integer division
FitReturn_intdiv(gp, valid, total) ==
    IF valid <= MinRefl
    THEN <<gp, Zero>>
    ELSE <<fitGrain(gp), Ratio(valid \div total, 1)>>

\* a plausible slip: the threshold excludes 12 itself
FitReturn_lt(gp, valid, total) ==
    IF valid < MinRefl
    THEN <<gp, Zero>>
    ELSE <<fitGrain(gp), Ratio(valid, total)>>

\* lines 271-283: the value returned by FitGrainsWorker.fit_grains for a
\* table with `valid` accepted rows out of `total`
FitReturn(gp, valid, total) ==
    IF valid <= MinRefl
    THEN <<gp, Zero>>
    ELSE <<fitGrain(gp), Ratio(valid, total)>>

\* a plausible slip: the break on zero completeness is left out
LoopGoesOn_nobreak(iteration, compl) == iteration + 1 < NIter

\* lines 289-293: after fit_grains of `iteration` returned `compl`: does the
\* for loop go on to another iteration
LoopGoesOn(iteration, compl) == ~IsZero(compl) /\ iteration + 1 < NIter

\* a plausible slip: the reflections are stored only when the fit is run
StoredRefl_onfit(old, new, valid) == IF valid <= MinRefl THEN old ELSE new

\* lines 266-270: self._p['hkls'] and self._p['xyo_det'] after fit_grains
\* read a table with `valid` accepted rows: they are assigned before the
\* test of line 271, whatever the count
StoredRefl(old, new, valid) == new

\* lines 247-283 (called at line 291) and the loop control of lines 289-293:
\* fit_grains reads the spots file of its grain, stores the accepted
\* reflections in self._p, and fits unless there are too few
fit_grains(w) ==
    /\ wpc[w] = "fit"
    /\ spots[local[w].id].kind = "spots"
    /\ LET gtable == spots[local[w].id]
           ret == FitReturn(local[w].grain_params, gtable.valid, gtable.total)
           goon == LoopGoesOn(local[w].iteration, ret[2])
       IN /\ heap' = [heap EXCEPT ![p[w]].refl =
                         StoredRefl(@, [kind |-> "refl", id |-> local[w].id,
                                        iter |-> gtable.iter, valid |-> gtable.valid,
                                        by |-> w], gtable.valid)]
          /\ local' = [local EXCEPT ![w].grain_params = ret[1],
                                    ![w].compl = ret[2],
                                    ![w].iteration = IF goon THEN @ + 1 ELSE @]
          /\ wpc' = [wpc EXCEPT ![w] = IF goon THEN "assoc" ELSE "finalize"]
    /\ UNCHANGED <<orchVars, queueVars, results, p, spots, dequeued, appends, acked>>

\* lines 295-307: the strain tensor and the residual, the latter computed on
\* the reflections found in self._p
Finalize(w) ==
    /\ wpc[w] = "finalize"
    /\ local' = [local EXCEPT ![w].eMat = logm_inv(local[w].grain_params),
                              ![w].resd = heap[p[w]].refl]
    /\ wpc' = [wpc EXCEPT ![w] = "append"]
    /\ UNCHANGED <<orchVars, queueVars, results, heap, p, spots, dequeued,
                   appends, acked>>

\* line 309: the tuple appended to the shared list
ResultTuple(l) ==
    [id |-> l.id, grain_params |-> l.grain_params, compl |-> l.compl,
     eMat |-> l.eMat, resd |-> l.resd]

\* a plausible slip: an append that is a read followed by a write of the
\* whole list, so that the later of two concurrent appends overwrites the other
ListAppend_lossy(s, r) == IF s = <<>> THEN <<r>> ELSE [s EXCEPT ![Len(s)] = r]

\* line 309: manager.list().append, one call served by the manager process
ListAppend(s, r) == Append(s, r)

AppendResult(w) ==
    /\ wpc[w] = "append"
    /\ results' = ListAppend(results, ResultTuple(local[w]))
    /\ appends' = appends + 1
    /\ wpc' = [wpc EXCEPT ![w] = "ack"]
    /\ UNCHANGED <<orchVars, queueVars, heap, p, local, spots, dequeued, acked>>

\* line 310: task_done acquires _unfinished_tasks once; loop returns and its
\* locals are gone
TaskDone(w) ==
    /\ wpc[w] = "ack"
    /\ unfinished > 0
    /\ unfinished' = unfinished - 1
    /\ acked' = acked + 1
    /\ local' = [local EXCEPT ![w] = NoLocal]
    /\ wpc' = [wpc EXCEPT ![w] = "fetch"]
    /\ UNCHANGED <<orchVars, buffer, pipe, rlock, results, heap, p, spots,
                   dequeued, appends>>

\* lines 313-318: an exception raised between get and append leaves loop;
\* run catches Empty only, so any other exception leaves run as well and
\* ends the worker process, its job neither appended nor acknowledged (of the
\* locals only the id of the lost job is kept)
Raise(w) ==
    /\ wpc[w] \in {"assoc", "fit", "finalize"}
    /\ \E exc \in JobExceptions :
          wpc' = [wpc EXCEPT ![w] = IF Caught(exc) THEN "terminated" ELSE "dead"]
    /\ local' = [local EXCEPT ![w] = [NoLocal EXCEPT !.id = local[w].id]]
    /\ UNCHANGED <<orchVars, queueVars, results, heap, p, spots, dequeued,
                   appends, acked>>

\* fit_grains(cfg) is called again (the command is run a second time): the
\* detector, legacy and quaternion files stay, the queue, the list and the
\* workers are built anew.  The reflection files of the earlier run are left
\* out: pull_spots (line 290) rewrites a grain's file before fit_grains
\* (line 291) reads it
Restart ==
    /\ opc \in {"failed", "done"}
    /\ det0' = files.det
    /\ migrated' = FALSE
    /\ opc' = "start"
    /\ n_quats' = 0
    /\ i' = 0
    /\ buffer' = <<>>
    /\ pipe' = <<>>
    /\ unfinished' = 0
    /\ rlock' = 0
    /\ results' = <<>>
    /\ pkwargs' = -1
    /\ heap' = [r \in Refs |-> Free]
    /\ wpc' = [w \in Workers |-> "unborn"]
    /\ p' = [w \in Workers |-> -1]
    /\ local' = [w \in Workers |-> NoLocal]
    /\ spots' = [g \in GrainIds |-> NoFile]
    /\ report' = <<>>
    /\ dequeued' = {}
    /\ appends' = 0
    /\ acked' = 0
    /\ UNCHANGED <<files, nrows, ncpus, tolerance>>

\* ------------------------------------------------------- specifications
Orchestrator ==
    \/ Bootstrap
    \/ LoadQuats
    \/ Put
    \/ MakePkwargs
    \/ Spawn
    \/ Poll
    \/ Join
    \/ Report

WorkerStep(w) ==
    \/ GetAcquire(w)
    \/ GetRecv(w)
    \/ pull_spots(w)
    \/ fit_grains(w)
    \/ Finalize(w)
    \/ AppendResult(w)
    \/ TaskDone(w)

Next ==
    \/ Bootstrap
    \/ LoadQuats
    \/ Put
    \/ MakePkwargs
    \/ Spawn
    \/ Poll
    \/ Join
    \/ Report
    \/ Feed
    \/ \E w \in Workers : GetAcquire(w)
    \/ \E w \in Workers : GetRecv(w)
    \/ \E w \in Workers : pull_spots(w)
    \/ \E w \in Workers : fit_grains(w)
    \/ \E w \in Workers : Finalize(w)
    \/ \E w \in Workers : AppendResult(w)
    \/ \E w \in Workers : TaskDone(w)
    \/ \E w \in Workers : Raise(w)
    \/ Restart

Spec == Init /\ [][Next]_vars

\* every process that can take a step eventually takes one: the orchestrator,
\* the feeder thread and each worker process are scheduled by the operating
\* system; exceptions and a second run are not owed
FairSpec ==
    /\ Init
    /\ [][Next]_vars
    /\ WF_vars(Orchestrator)
    /\ WF_vars(Feed)
    /\ \A w \in Workers : WF_vars(WorkerStep(w))

\* ------------------------------------------------------------- claims
ResultIds == {results[k].id : k \in 1..Len(results)}
InJob == {"assoc", "fit", "finalize", "append", "ack"}
Holding(w) == wpc[w] \in InJob

\* C1: when the orchestrator starts writing the report (and from then on), the
\* result list holds exactly n_quats entries and the set of their grain ids is
\* exactly 0..n_quats-1, without duplicate or gap.
C1_ReportComplete ==
    opc \in {"report", "done"} =>
        /\ Len(results) = n_quats
        /\ ResultIds = 0..(n_quats - 1)
        /\ Cardinality(ResultIds) = Len(results)

\* C1 witness: the report is about to be written for a full batch run by
\* several workers
C1_Witness ==
    /\ opc = "report"
    /\ n_quats = MaxJobs
    /\ ncpus > 1
    /\ Len(results) = n_quats

\* C2: under every interleaving the result list has at most n_quats entries,
\* no two entries carry the same grain id, each entry's grain id is that of a
\* job that was dequeued and of the parameters it carries, and every append
\* performed is present exactly once: the list is as long as the number of
\* appends, a worker that has appended finds its entry once, a worker that
\* has not yet appended finds none.
C2_ResultsSound ==
    /\ Len(results) <= n_quats
    /\ \A a, b \in 1..Len(results) : a # b => results[a].id # results[b].id
    /\ \A a \in 1..Len(results) :
          /\ results[a].id \in dequeued
          /\ results[a].grain_params.orig = results[a].id
    /\ Len(results) = appends
    /\ \A w \in Workers :
          /\ wpc[w] = "ack" =>
                Cardinality({a \in 1..Len(results) : results[a].id = local[w].id}) = 1
          /\ wpc[w] \in {"assoc", "fit", "finalize", "append"} =>
                local[w].id \notin ResultIds

\* C2 witness: one worker has appended and not yet acknowledged while another
\* is about to append
C2_Witness ==
    /\ Len(results) = 1
    /\ \E w, v \in Workers : wpc[w] = "ack" /\ wpc[v] = "append"

\* C3: the rows of the report are in strictly ascending grain id order,
\* whatever the completion order and the worker count: the sequence of grain
\* ids written is 0, 1, ..., n_quats-1 for every ncpus.
C3_ReportSorted ==
    opc = "done" =>
        /\ Len(report) = n_quats
        /\ \A a, b \in 1..Len(report) : a < b => report[a].id < report[b].id
        /\ \A a \in 1..Len(report) : report[a].id = a - 1

\* C3 witness: a report written from results that completed out of id order
C3_Witness ==
    /\ opc = "done"
    /\ Len(results) >= 2
    /\ results[1].id > results[2].id

\* C4: the orchestrator passes from the polling loop to the join only on
\* seeing len(results) = n_quats, and from the join to the report only with
\* no unacknowledged job; when it reads the results every dequeued job has
\* been acknowledged and no worker holds a job.
C4_ReadAfterBarrier ==
    /\ [](opc \in {"report", "done"} =>
            /\ Len(results) = n_quats
            /\ unfinished = 0
            /\ Cardinality(dequeued) = n_quats
            /\ \A w \in Workers : ~Holding(w) /\ wpc[w] # "dead")
    /\ [][(opc' = "join" /\ opc # "join") =>
             (opc = "poll" /\ Len(results) = n_quats)]_vars
    /\ [][(opc' = "report" /\ opc # "report") =>
             (opc = "join" /\ unfinished = 0)]_vars

\* C4 witness: the count reached n_quats and the orchestrator is at the join
\* while the last worker has appended and not yet called task_done
C4_Witness ==
    /\ opc = "join"
    /\ unfinished = 1
    /\ \E w \in Workers : wpc[w] = "ack"

\* C5 (as claimed): a failure inside the processing of one job never escapes
\* the job boundary: no worker process is ended by an exception of a job.
C5_FailureContained == \A w \in Workers : wpc[w] # "dead"

\* C6 (as claimed): under fair scheduling and without a worker death every
\* run completes: the polling loop ends, the join returns and the report is
\* written (or the run failed on a missing file before any job was put).
\* A behaviour in which a worker died is not one the claim speaks of.
C6_RunCompletes ==
    <>(opc \in {"done", "failed"} \/ \E w \in Workers : wpc[w] = "dead")

Started == {w \in Workers : wpc[w] # "unborn"}
NoStep(w) == wpc'[w] = wpc[w] /\ local'[w] = local[w]

\* C7: when the association of iteration i leaves at most 12 valid
\* reflections (12 included, 13 not), fit_grains does not fit: the job goes
\* straight to finalization with completeness 0 and the parameters that
\* entered iteration i, no further association is made for the job (the
\* reflection file stays that of iteration i), and the result appended has
\* completeness 0 and those parameters.  With 13 or more the fit is run.
C7_EarlyExit ==
    /\ [](\A w \in Workers :
            wpc[w] \in {"finalize", "append", "ack"} =>
               LET t == spots[local[w].id]
               IN /\ t.iter = local[w].iteration
                  /\ t.valid <= MinRefl =>
                        /\ IsZero(local[w].compl)
                        /\ local[w].grain_params = local[w].entered
                        /\ local[w].grain_params.fits = t.iter
                  /\ t.valid > MinRefl =>
                        /\ ~IsZero(local[w].compl)
                        /\ local[w].grain_params = fitGrain(local[w].entered)
                        /\ t.iter = NIter - 1)
    /\ [][\A w \in Workers :
            (wpc[w] = "fit" /\ spots[local[w].id].valid <= MinRefl /\ ~NoStep(w)) =>
               \/ wpc'[w] = "dead"
               \/ /\ wpc'[w] = "finalize"
                  /\ local'[w].grain_params = local[w].grain_params
                  /\ IsZero(local'[w].compl)
                  /\ spots' = spots]_vars
    /\ [][\A w \in Workers :
            (wpc[w] = "append" /\ ~NoStep(w)) =>
               /\ wpc'[w] = "ack"
               /\ results' = Append(results, ResultTuple(local[w]))]_vars

\* C7 witness: a result appended by a job that left at iteration 1 with
\* exactly 12 valid reflections, after a fit at iteration 0
C7_Witness ==
    \E a \in 1..Len(results) :
        /\ spots[results[a].id].valid = MinRefl
        /\ spots[results[a].id].iter = 1
        /\ IsZero(results[a].compl)

\* C8 (as claimed): a result of the insufficient-data path has completeness 0
\* and carries the parameters the job was submitted with.
C8_Unrefined ==
    \A a \in 1..Len(results) :
        IsZero(results[a].compl) =>
            /\ spots[results[a].id].valid <= MinRefl
            /\ results[a].grain_params = InitParams(results[a].id)

\* C8 (amended): a result has completeness 0 exactly when the job's last
\* association left at most 12 valid reflections; it then carries the
\* parameters as they entered that iteration: the submitted ones when the
\* job left at iteration 0, the ones refined by the fits of the earlier
\* iterations otherwise.  The worker goes on: its next steps are task_done
\* and the next get.
C8_LastStageParams ==
    /\ [](\A a \in 1..Len(results) :
            LET r == results[a]
                t == spots[r.id]
            IN /\ IsZero(r.compl) <=> t.valid <= MinRefl
               /\ IsZero(r.compl) =>
                     /\ r.grain_params = [orig |-> r.id, fits |-> t.iter]
                     /\ t.iter = 0 => r.grain_params = InitParams(r.id))
    /\ [][\A w \in Workers :
            (wpc[w] = "ack" /\ ~NoStep(w)) =>
               (wpc'[w] = "fetch" /\ results' = results)]_vars

\* C8 witness: a job that left at iteration 0 has its result in the list
\* and the same run holds a further job
C8_Witness ==
    /\ \E a \in 1..Len(results) :
          /\ IsZero(results[a].compl)
          /\ spots[results[a].id].iter = 0
    /\ \E w \in Workers : Holding(w) /\ local[w].id \notin ResultIds

\* C9: once the spawn loop is over exactly ncpus workers exist (never more);
\* every worker's parameter dict is an object of its own, distinct from the
\* orchestrator's pkwargs and from every other worker's; what a worker writes
\* ('bMat' in the constructor, the reflections of a job) is found in its own
\* dict only; the geometry and tolerance entries of every dict keep the
\* values pkwargs was built with.
C9_OwnCopies ==
    /\ Cardinality(Started) <= ncpus
    /\ opc \in {"poll", "join", "report", "done"} => Started = 1..ncpus
    /\ pkwargs # -1 =>
          /\ heap[pkwargs].bMat = Unset
          /\ heap[pkwargs].refl = Unset
          /\ heap[pkwargs].tol = tolerance
    /\ \A w \in Started :
          /\ p[w] # pkwargs
          /\ \A v \in Started : v # w => p[v] # p[w]
          /\ heap[p[w]].bMat = [kind |-> "B", by |-> w]
          /\ heap[p[w]].refl # Unset => heap[p[w]].refl.by = w
          /\ heap[p[w]].detector_params = heap[pkwargs].detector_params
          /\ heap[p[w]].tol = heap[pkwargs].tol

\* C9 witness: two workers hold the reflections of two different jobs, each
\* in its own dict
C9_Witness ==
    \E w, v \in Started :
        /\ w # v
        /\ heap[p[w]].refl # Unset
        /\ heap[p[v]].refl # Unset
        /\ heap[p[w]].refl.id # heap[p[v]].refl.id

Dispatched ==
    \/ buffer # <<>>
    \/ pipe # <<>>
    \/ unfinished > 0
    \/ Started # {}

\* C10: migrate_detector_config is called exactly in the runs that find the
\* detector file absent (and the legacy file present); once the detector file
\* exists no step changes the files, so the run after a migrating run does not
\* migrate; no job is put and no worker started before the detector file
\* exists; a run with both files absent, or without quats.out, fails with no
\* job put and no worker started.
C10_Bootstrap ==
    /\ [](/\ migrated => (~det0 /\ files.old /\ files.det)
          /\ opc \notin {"start", "failed"} => (migrated <=> ~det0)
          /\ Dispatched => (files.det /\ files.quats /\ opc # "failed")
          /\ (~det0 /\ ~files.old) => (opc \in {"start", "failed"} /\ ~migrated)
          /\ ~files.quats => opc \in {"start", "load_quats", "failed"})
    /\ [][files.det => files' = files]_vars
    /\ [][(migrated /\ opc' = "start") => (det0' /\ ~migrated')]_vars

\* C10 witness: jobs are on the queue in a run that migrated
C10_Witness ==
    /\ migrated
    /\ unfinished = n_quats
    /\ opc = "spawn"

C12_Moves ==
    {<<"unborn", "fetch">>, <<"fetch", "recv">>, <<"recv", "assoc">>,
     <<"assoc", "fit">>, <<"fit", "assoc">>, <<"fit", "finalize">>,
     <<"finalize", "append">>, <<"append", "ack">>, <<"ack", "fetch">>,
     <<"fetch", "terminated">>, <<"recv", "terminated">>,
     <<"assoc", "dead">>, <<"fit", "dead">>, <<"finalize", "dead">>}

\* what a move of worker w away from its position requires
C12_MoveOk(w) ==
    CASE wpc[w] = "fetch" -> (wpc'[w] = "terminated" => rlock # 0)
      [] wpc[w] = "recv" ->
            IF wpc'[w] = "terminated" THEN pipe = <<>> ELSE local'[w].iteration = 0
      [] wpc[w] = "assoc" ->
            (wpc'[w] = "fit" => local'[w].iteration = local[w].iteration)
      [] wpc[w] = "fit" ->
            /\ wpc'[w] = "assoc" =>
                  /\ local'[w].iteration = local[w].iteration + 1
                  /\ ~IsZero(local'[w].compl)
            /\ wpc'[w] = "finalize" =>
                  \/ IsZero(local'[w].compl)
                  \/ local[w].iteration = NIter - 1
      [] wpc[w] = "ack" -> unfinished' = unfinished - 1
      [] OTHER -> TRUE

\* C12: for each job a worker goes get, pull_spots(0), fit_grains(0),
\* pull_spots(1), fit_grains(1) (cut short by the break), then the
\* finalization, the append and task_done once each, then get again:
\* fit_grains of iteration i reads the file written by pull_spots of
\* iteration i, the result is in the list before task_done, nothing of a job
\* changes after its task_done, and a worker ends its run loop normally only
\* from get, on Empty.
C12_StateOrder ==
    /\ [](\A w \in Workers :
            /\ wpc[w] = "fit" =>
                  /\ spots[local[w].id].kind = "spots"
                  /\ spots[local[w].id].iter = local[w].iteration
            /\ wpc[w] \in {"assoc", "fit"} => local[w].iteration \in 0..(NIter - 1)
            /\ wpc[w] \in {"assoc", "fit", "finalize", "append"} =>
                  local[w].id \notin ResultIds
            /\ wpc[w] = "ack" => local[w].id \in ResultIds
            /\ ~Holding(w) /\ wpc[w] # "dead" => local[w] = NoLocal)
    /\ [][opc' # "start" =>
            \A w \in Workers :
               wpc'[w] # wpc[w] =>
                  /\ <<wpc[w], wpc'[w]>> \in C12_Moves
                  /\ C12_MoveOk(w)]_vars
    /\ [][opc' # "start" =>
            /\ Len(results') >= Len(results)
            /\ \A k \in 1..Len(results) : results'[k].id = results[k].id
            /\ spots' # spots =>
                  \A g \in GrainIds :
                     spots'[g] # spots[g] =>
                        \E w \in Workers : Holding(w) /\ local[w].id = g]_vars

\* C12 witness: a worker that has acknowledged a first job is in the second
\* association of its second job
C12_Witness ==
    \E w \in Workers :
        /\ wpc[w] = "assoc"
        /\ local[w].iteration = 1
        /\ results # <<>>
        /\ \A v \in Workers : v # w => wpc[v] = "unborn"

\* C13 (as claimed): the iterations of a job follow the tolerance lists: an
\* association of iteration i has an i-th entry to use (the lists are never
\* indexed past their end), and a job that no break cut short has run one
\* association and fit per entry of the lists.
C13_ScheduleGoverned ==
    /\ \A w \in Workers :
          wpc[w] = "assoc" => local[w].iteration < Len(heap[p[w]].tol)
    /\ \A a \in 1..Len(results) :
          ~IsZero(results[a].compl) => results[a].grain_params.fits = Len(tolerance)

\* grain ids of the jobs still on the queue (buffer or pipe)
Queued == {buffer[k].id : k \in 1..Len(buffer)} \cup {pipe[k].id : k \in 1..Len(pipe)}

\* C14: once a worker has died between get and append, it stays dead and its
\* job is lost: the job is not on the queue again, no other worker holds it,
\* no result with its grain id is in the list, the job stays unacknowledged,
\* and the orchestrator stays before the join: len(results) stays below
\* n_quats and no report is written.
C14_DeathStalls ==
    /\ [](\A w \in Workers :
            wpc[w] = "dead" =>
               /\ local[w].id \in dequeued
               /\ local[w].id \notin Queued
               /\ local[w].id \notin ResultIds
               /\ \A v \in Workers : Holding(v) => local[v].id # local[w].id
               /\ unfinished > 0
               /\ Len(results) < n_quats
               /\ opc \in {"spawn", "poll"}
               /\ report = <<>>)
    /\ [][\A w \in Workers :
            wpc[w] = "dead" => (wpc'[w] = "dead" /\ local'[w] = local[w])]_vars

\* C14 witness: a worker died holding the last job; every other job has its
\* result, the other workers have ended, and the orchestrator polls
C14_Witness ==
    /\ opc = "poll"
    /\ n_quats = MaxJobs
    /\ Len(results) = n_quats - 1
    /\ \E w \in Workers : wpc[w] = "dead"
    /\ \A w \in Workers : wpc[w] \in {"dead", "terminated"}

\* C15: the completeness of a result is that of the last association of its
\* job (the one whose file is left on disk): valid / total of that file when
\* the fit ran on it, 0 when it did not; it lies between 0 and 1; it is 0
\* exactly when that association left at most 12 valid reflections.  The
\* same holds of the completeness a worker carries to the append.
C15_Completeness ==
    /\ \A a \in 1..Len(results) :
          LET c == results[a].compl
              t == spots[results[a].id]
          IN /\ t.kind = "spots"
             /\ t.valid > MinRefl => c = Ratio(t.valid, t.total)
             /\ t.valid <= MinRefl => c = Zero
             /\ c.den > 0 /\ 0 <= c.num /\ c.num <= c.den
             /\ IsZero(c) <=> t.valid <= MinRefl
    /\ \A w \in Workers :
          wpc[w] \in {"finalize", "append"} =>
             LET c == local[w].compl
                 t == spots[local[w].id]
             IN /\ c = IF t.valid > MinRefl THEN Ratio(t.valid, t.total) ELSE Zero
                /\ IsZero(c) <=> t.valid <= MinRefl

\* C15 witness: the list holds a result of a fitted job, with completeness
\* 13/14, and a result of a job that left with 12 valid reflections
C15_Witness ==
    /\ \E a \in 1..Len(results) :
          /\ results[a].compl = Ratio(MinRefl + 1, NCand)
          /\ spots[results[a].id].iter = NIter - 1
    /\ \E a \in 1..Len(results) :
          /\ IsZero(results[a].compl)
          /\ spots[results[a].id].valid = MinRefl

\* C16 (as claimed): once a worker exists all n_quats jobs have been put
\* (each is on the queue or was dequeued), and a worker that has left its run
\* loop on Empty did so with every job already dequeued by some worker.
C16_EmptyMeansDrained ==
    /\ Started # {} =>
          Len(buffer) + Len(pipe) + Cardinality(dequeued) = n_quats
    /\ \A w \in Workers :
          wpc[w] = "terminated" => Cardinality(dequeued) = n_quats

\* the reflections of the last association of job g, as worker w stores them
LastRefl(g, w) ==
    [kind |-> "refl", id |-> g, iter |-> spots[g].iter, valid |-> spots[g].valid,
     by |-> w]

\* C17: the residual of a job is computed on the reflections that the last
\* association of that same job left (those of the job's file as it stands),
\* whether the job was fitted or left early; it is never computed on what an
\* earlier job of the worker left in self._p.
C17_OwnReflections ==
    /\ \A w \in Workers :
          wpc[w] \in {"finalize", "append", "ack"} =>
             /\ heap[p[w]].refl = LastRefl(local[w].id, w)
             /\ wpc[w] # "finalize" => local[w].resd = LastRefl(local[w].id, w)
    /\ \A a \in 1..Len(results) :
          \E w \in Workers : results[a].resd = LastRefl(results[a].id, w)

\* C17 witness: a worker that fitted one job has appended the result of a
\* later job of its own that left at iteration 0
C17_Witness ==
    \E a, b \in 1..Len(results) :
        /\ a < b
        /\ results[a].resd.by = results[b].resd.by
        /\ ~IsZero(results[a].compl)
        /\ IsZero(results[b].compl)
        /\ spots[results[b].id].iter = 0

\* workers that hold job g
Holders(g) == {w \in Workers : Holding(w) /\ local[w].id = g}

\* C18: get hands a job to one worker only (a grain id is dequeued once), so
\* no two workers hold the same grain id at any time, and the file
\* spots_%05d.out of a grain is written (pull_spots) and read (fit_grains)
\* by the one worker that holds the grain's job, during that job.
C18_OneWorkerPerJob ==
    /\ [](\A g \in GrainIds :
            /\ Cardinality(Holders(g)
                   \cup {w \in Workers : wpc[w] = "dead" /\ local[w].id = g}) <= 1
            /\ Holders(g) # {} => g \in dequeued /\ g \notin Queued
            /\ spots[g].kind = "spots" => g \in dequeued)
    /\ [][\A w \in Workers :
            (wpc[w] = "recv" /\ wpc'[w] = "assoc") =>
               /\ local'[w].id \notin dequeued
               /\ dequeued' = dequeued \cup {local'[w].id}
               /\ local'[w].id \notin {pipe'[k].id : k \in 1..Len(pipe')}]_vars
    /\ [][\A g \in GrainIds :
            (spots'[g] # spots[g] /\ opc' # "start") =>
               \E w \in Workers :
                  /\ Holders(g) = {w}
                  /\ wpc[w] = "assoc" /\ wpc'[w] = "fit"
                  /\ \A h \in GrainIds : h # g => spots'[h] = spots[h]]_vars
    /\ [][\A w \in Workers :
            (wpc[w] = "fit" /\ wpc'[w] \in {"assoc", "finalize"}) =>
               /\ Holders(local[w].id) = {w}
               /\ heap'[p[w]].refl = LastRefl(local[w].id, w)]_vars

\* C18 witness: two workers hold two different jobs, one reading the file of
\* its grain while the other is about to write the file of the other grain
C18_Witness ==
    \E w, v \in Workers :
        /\ wpc[w] = "fit"
        /\ wpc[v] = "assoc"
        /\ local[v].iteration = 1
        /\ local[w].id # local[v].id

\* workers between a successful get and the append of its job
InFlight == {w \in Workers : wpc[w] \in {"assoc", "fit", "finalize", "append"}}
\* how many entries of the sequence q carry grain id g
CountId(q, g) == Cardinality({k \in 1..Len(q) : q[k].id = g})

\* C19 (as claimed): once the queue is loaded every submitted grain id is in
\* exactly one of three places: on the queue, held by exactly one worker
\* that is processing it, or in the result list; the three counts add up to
\* n_quats and no more jobs are in flight than there are workers.
C19_JobConservation ==
    opc \in {"spawn", "poll", "join", "report", "done"} =>
        /\ \A g \in 0..(n_quats - 1) :
              CountId(buffer, g) + CountId(pipe, g)
                 + Cardinality({w \in InFlight : local[w].id = g})
                 + CountId(results, g) = 1
        /\ Len(buffer) + Len(pipe) + Cardinality(InFlight) + Len(results) = n_quats
        /\ Cardinality(InFlight) <= ncpus

\* calls of put so far: the put loop counts them in i
Puts ==
    CASE opc \in {"start", "load_quats", "failed"} -> 0
      [] opc = "load_queue" -> i
      [] OTHER -> n_quats

\* C20 (as claimed): task_done is called once for each successful get and
\* never after an Empty: the calls of task_done never outnumber the jobs
\* dequeued, every dequeued job that no worker is processing any more has
\* been acknowledged, and the count of unacknowledged jobs is never negative
\* and is the number of puts less the number of acknowledgements.
C20_AckPerGet ==
    /\ acked <= Cardinality(dequeued)
    /\ Cardinality(dequeued) = acked + Cardinality({w \in Workers : Holding(w)})
    /\ unfinished >= 0
    /\ unfinished = Puts - acked

====
